---- MODULE Spec2Model ----
(***************************************************************************)
(* Model of the unifi-names CoreDNS plugin (src/names.go): the shared      *)
(* client cache (aClients, aaaaClients, lastUpdate), the refresh           *)
(* goroutine started by the first ServeDNS call, the Ready probe and the   *)
(* query path (resolve).                                                    *)
(*                                                                         *)
(* Strings are sequences of one-character strings, so that lowercasing,    *)
(* suffix tests, sanitising and IP parsing are computed, not assumed.      *)
(***************************************************************************)
EXTENDS Integers, Sequences, FiniteSets, TLC

(***************************************************************************)
(* Strings (package strings of the Go library, as used by names.go).       *)
(* A rune is its code point; the texts here are ASCII or Latin-1.           *)
(***************************************************************************)
IsUpper(r) == r \in 65..90 \/ r \in 192..214 \/ r \in 216..222

IsDigit(r) == r \in 48..57

IsHexDigit(r) == r \in 48..57 \/ r \in 97..102

\* unicode.ToLower on ASCII and Latin-1
ToLowerRune(r) == IF IsUpper(r) THEN r + 32 ELSE r

\* strings.ToLower
ToLower(s) == [i \in 1..Len(s) |-> ToLowerRune(s[i])]

\* strings.HasSuffix
HasSuffix(s, suffix) ==
    /\ Len(suffix) <= Len(s)
    /\ SubSeq(s, Len(s) - Len(suffix) + 1, Len(s)) = suffix

\* strings.EqualFold (simple case folding)
EqualFold(s, t) == ToLower(s) = ToLower(t)

\* strings.FieldsFunc(s, func(r) bool { return r == sep }): the non-empty
\* maximal runs of runes other than sep, in order.
RECURSIVE FieldsFrom(_, _, _, _)
FieldsFrom(s, sep, i, cur) ==
    IF i > Len(s)
    THEN IF cur = <<>> THEN <<>> ELSE <<cur>>
    ELSE IF s[i] = sep
         THEN (IF cur = <<>> THEN <<>> ELSE <<cur>>) \o FieldsFrom(s, sep, i + 1, <<>>)
         ELSE FieldsFrom(s, sep, i + 1, Append(cur, s[i]))

FieldsFunc(s, sep) == FieldsFrom(s, sep, 1, <<>>)

\* strings.Split(s, sep) for a one-rune separator: empty fields are kept.
RECURSIVE SplitFrom(_, _, _, _)
SplitFrom(s, sep, i, cur) ==
    IF i > Len(s)
    THEN <<cur>>
    ELSE IF s[i] = sep
         THEN <<cur>> \o SplitFrom(s, sep, i + 1, <<>>)
         ELSE SplitFrom(s, sep, i + 1, Append(cur, s[i]))

Split(s, sep) == SplitFrom(s, sep, 1, <<>>)

\* strings.Join
RECURSIVE Join(_, _)
Join(fields, sep) ==
    IF fields = <<>> THEN <<>>
    ELSE IF Len(fields) = 1 THEN fields[1]
    ELSE fields[1] \o sep \o Join(Tail(fields), sep)

(***************************************************************************)
(* sanitizeName, isAllowedRune                                              *)
(***************************************************************************)
\* []rune("abcdefghijklmnopqrstuvwxyz12345679-")
allowedRunes == <<97, 98, 99, 100, 101, 102, 103, 104, 105, 106, 107, 108, 109, 110, 111, 112, 113, 114, 115, 116, 117, 118, 119, 120, 121, 122, 49, 50, 51, 52, 53, 54, 55, 57, 45>>

\* An allow-list check that would let every digit through.
isAllowedRuneOrDigit(allowed, r) ==
    \/ \E i \in 1..Len(allowed) : allowed[i] = r
    \/ IsDigit(r)

isAllowedRune(allowed, r) == \E i \in 1..Len(allowed) : allowed[i] = r

\* The string builder loop of sanitizeName: allowed runes are kept, every
\* other rune becomes '-'.
ReplaceRunes(s) ==
    [i \in 1..Len(s) |-> IF isAllowedRune(allowedRunes, s[i]) THEN s[i] ELSE 45]

\* strings.ReplaceAll(s, "--", "-")
RECURSIVE ReplaceDashPairs(_)
ReplaceDashPairs(s) ==
    IF Len(s) < 2 THEN s
    ELSE IF s[1] = 45 /\ s[2] = 45
         THEN <<45>> \o ReplaceDashPairs(SubSeq(s, 3, Len(s)))
         ELSE <<s[1]>> \o ReplaceDashPairs(Tail(s))

\* A sanitizeName that would remove "--" by replacing each pair once.
sanitizeNameReplacesPairs(s) ==
    IF s = <<>> THEN <<>>
    ELSE ReplaceDashPairs(ReplaceRunes(ToLower(s)))

sanitizeName(s) ==
    IF s = <<>> THEN <<>>
    ELSE Join(FieldsFunc(ReplaceRunes(ToLower(s)), 45), <<45>>)

(***************************************************************************)
(* net.ParseIP and IP.To4 (Go library), on the textual forms the upstream  *)
(* produces here: dotted-quad IPv4 and colon-hex IPv6 (one optional "::"); *)
(* texts mixing ':' and '.' do not occur among the modelled inputs.        *)
(* A parsed address is the 16-byte form; <<>> stands for nil.              *)
(***************************************************************************)
\* The value of a digit rune ('0'..'9', 'a'..'f')
DigitValue(r) == IF IsDigit(r) THEN r - 48 ELSE r - 87

RECURSIVE NumValue(_, _)
NumValue(s, base) ==
    IF s = <<>> THEN 0
    ELSE NumValue(SubSeq(s, 1, Len(s) - 1), base) * base + DigitValue(s[Len(s)])

IsIPv4Field(f) ==
    /\ Len(f) \in 1..3
    /\ \A i \in 1..Len(f) : IsDigit(f[i])
    /\ (Len(f) > 1 => f[1] # 48)
    /\ NumValue(f, 10) <= 255

ParseIPv4(s) ==
    LET fs == Split(s, 46) IN
    IF Len(fs) = 4 /\ \A i \in 1..4 : IsIPv4Field(fs[i])
    THEN <<0, 0, 0, 0, 0, 0, 0, 0, 0, 0, 255, 255>>
         \o [i \in 1..4 |-> NumValue(fs[i], 10)]
    ELSE <<>>

IsIPv6Group(f) ==
    /\ Len(f) \in 1..4
    /\ \A i \in 1..Len(f) : IsHexDigit(ToLowerRune(f[i]))

GroupBytes(f) ==
    LET v == NumValue(ToLower(f), 16) IN <<v \div 256, v % 256>>

RECURSIVE ZeroBytes(_)
ZeroBytes(n) == IF n <= 0 THEN <<>> ELSE <<0>> \o ZeroBytes(n - 1)

RECURSIVE GroupsBytes(_)
GroupsBytes(gs) ==
    IF gs = <<>> THEN <<>> ELSE GroupBytes(gs[1]) \o GroupsBytes(Tail(gs))

ParseIPv6(s) ==
    LET raw   == Split(s, 58)
        lead  == raw[1] = <<>>
        trail == raw[Len(raw)] = <<>>
        okEnds == /\ Len(raw) >= 2
                  /\ (lead => raw[2] = <<>>)
                  /\ (trail => raw[Len(raw) - 1] = <<>>)
        p1    == IF lead THEN Tail(raw) ELSE raw
        parts == IF trail /\ Len(p1) >= 2 THEN SubSeq(p1, 1, Len(p1) - 1) ELSE p1
        gaps  == {i \in 1..Len(parts) : parts[i] = <<>>}
        groupsOk == \A i \in 1..Len(parts) : i \in gaps \/ IsIPv6Group(parts[i])
    IN  IF ~okEnds \/ ~groupsOk \/ Cardinality(gaps) > 1 THEN <<>>
        ELSE IF gaps = {}
             THEN (IF Len(parts) = 8 THEN GroupsBytes(parts) ELSE <<>>)
             ELSE LET g == CHOOSE i \in gaps : TRUE IN
                  IF Len(parts) - 1 > 7 THEN <<>>
                  ELSE GroupsBytes(SubSeq(parts, 1, g - 1))
                       \o ZeroBytes(2 * (8 - (Len(parts) - 1)))
                       \o GroupsBytes(SubSeq(parts, g + 1, Len(parts)))

ParseIP(s) ==
    IF \E i \in 1..Len(s) : s[i] = 58 THEN ParseIPv6(s) ELSE ParseIPv4(s)

\* IP.To4: the 4-byte form of an IPv4 or IPv4-mapped address, else nil.
To4(ip) ==
    IF /\ Len(ip) = 16
       /\ \A i \in 1..10 : ip[i] = 0
       /\ ip[11] = 255 /\ ip[12] = 255
    THEN SubSeq(ip, 13, 16)
    ELSE <<>>

\* dns_val.IsFQDN (external validator), applied to a sanitised label: a
\* fully qualified name has at least two non-empty dot-separated labels.
IsFQDN(name) ==
    LET ls == Split(name, 46) IN
    Len(ls) >= 2 /\ \A i \in 1..Len(ls) : ls[i] # <<>>

(***************************************************************************)
(* DNS constants (package dns)                                              *)
(***************************************************************************)
TypeA == 1

TypeAAAA == 28

TypeMX == 15

ClassINET == 1

ClassCHAOS == 3

(***************************************************************************)
(* uint32 values are kept as two 16-bit limbs <<high, low>>, so that the   *)
(* subtraction of resolve wraps modulo 2^32 exactly as in the program.     *)
(***************************************************************************)
Limb == 256 * 256

\* uint32(n) for 0 <= n < 2^31
U32(n) == <<(n \div Limb) % Limb, n % Limb>>

\* a - b on uint32
Sub32(a, b) ==
    LET lo     == a[2] - b[2]
        borrow == IF lo < 0 THEN 1 ELSE 0
    IN  <<(a[1] - b[1] - borrow) % Limb, lo % Limb>>

Leq32(a, b) == a[1] < b[1] \/ (a[1] = b[1] /\ a[2] <= b[2])

(***************************************************************************)
(* Configuration and the data of the modelled runs                          *)
(***************************************************************************)
\* "lan"
sLan == <<108, 97, 110>>

\* "LAN"
sLAN == <<76, 65, 78>>

\* "guest"
sGuest == <<103, 117, 101, 115, 116>>

\* "home.arpa"
sHomeArpa == <<104, 111, 109, 101, 46, 97, 114, 112, 97>>

\* "home.arpa."
sHomeArpaDot == <<104, 111, 109, 101, 46, 97, 114, 112, 97, 46>>

\* "Living Room TV"
sLivingRoomTV == <<76, 105, 118, 105, 110, 103, 32, 82, 111, 111, 109, 32, 84, 86>>

\* "living_room_tv"
sLiving_room_tv == <<108, 105, 118, 105, 110, 103, 95, 114, 111, 111, 109, 95, 116, 118>>

\* "Printer"
sPrinter == <<80, 114, 105, 110, 116, 101, 114>>

\* "TV"
sTV == <<84, 86>>

\* "cam"
sCam == <<99, 97, 109>>

\* "phone"
sPhone == <<112, 104, 111, 110, 101>>

\* "192.168.1.20"
sIP20 == <<49, 57, 50, 46, 49, 54, 56, 46, 49, 46, 50, 48>>

\* "192.168.1.21"
sIP21 == <<49, 57, 50, 46, 49, 54, 56, 46, 49, 46, 50, 49>>

\* "192.168.1.30"
sIP30 == <<49, 57, 50, 46, 49, 54, 56, 46, 49, 46, 51, 48>>

\* "192.168.1.40"
sIP40 == <<49, 57, 50, 46, 49, 54, 56, 46, 49, 46, 52, 48>>

\* "192.168.1.256"
sIP256 == <<49, 57, 50, 46, 49, 54, 56, 46, 49, 46, 50, 53, 54>>

\* "fe80::1"
sIPv6 == <<102, 101, 56, 48, 58, 58, 49>>

\* "living-room-tv.home.arpa."
qLivingRoomTV == <<108, 105, 118, 105, 110, 103, 45, 114, 111, 111, 109, 45, 116, 118, 46, 104, 111, 109, 101, 46, 97, 114, 112, 97, 46>>

\* "Living-Room-TV.Home.Arpa."
qLivingRoomTVMixed == <<76, 105, 118, 105, 110, 103, 45, 82, 111, 111, 109, 45, 84, 86, 46, 72, 111, 109, 101, 46, 65, 114, 112, 97, 46>>

\* "living-room-tv.example.org."
qOutside == <<108, 105, 118, 105, 110, 103, 45, 114, 111, 111, 109, 45, 116, 118, 46, 101, 120, 97, 109, 112, 108, 101, 46, 111, 114, 103, 46>>

\* "printer.home.arpa."
qPrinter == <<112, 114, 105, 110, 116, 101, 114, 46, 104, 111, 109, 101, 46, 97, 114, 112, 97, 46>>

\* p.Config.TTL: the refresh interval and base TTL, in seconds.
TTL == 300

\* p.Config: the network->domain mapping and the display-name toggle.
Configs ==
    { [Networks |-> [n \in {sLan} |-> sHomeArpa],    UseNameAsHostname |-> FALSE],
      [Networks |-> [n \in {sLan} |-> sHomeArpaDot], UseNameAsHostname |-> FALSE] }

\* unifi.Client entries (the fields getClients reads).
eTV == [Name |-> sLivingRoomTV, Hostname |-> sLivingRoomTV, IP |-> sIP20, Network |-> sLan]

eTV2 == [Name |-> sTV, Hostname |-> sLiving_room_tv, IP |-> sIP21, Network |-> sLAN]

eTV6 == [Name |-> <<>>, Hostname |-> sLivingRoomTV, IP |-> sIPv6, Network |-> sLan]

ePrinter == [Name |-> sPrinter, Hostname |-> <<>>, IP |-> sIP30, Network |-> sLan]

eGuest == [Name |-> sPhone, Hostname |-> sPhone, IP |-> sIP40, Network |-> sGuest]

eBadIP == [Name |-> sCam, Hostname |-> sCam, IP |-> sIP256, Network |-> sLan]

\* What uni.GetClients can return on success.
ClientLists ==
    { <<eTV>>,
      <<eTV2, eTV, eTV6, ePrinter, eGuest, eBadIP>> }

\* Outcomes of the three upstream calls of getClients.
FetchErrors == {"NewUnifi", "GetSites", "GetClients"}

\* Incoming queries (r.Question of a dns.Msg).
Q(name, qtype, qclass) == [Name |-> name, Qtype |-> qtype, Qclass |-> qclass]

Msgs ==
    { <<>>,
      <<Q(qLivingRoomTVMixed, TypeA, ClassCHAOS), Q(qLivingRoomTV, TypeMX, ClassINET),
        Q(qLivingRoomTVMixed, TypeAAAA, ClassINET), Q(qLivingRoomTV, TypeA, ClassINET)>>,
      <<Q(qOutside, TypeA, ClassINET), Q(qOutside, TypeAAAA, ClassINET)>>,
      <<Q(qPrinter, TypeA, ClassINET)>> }

(***************************************************************************)
(* Bounds of the model                                                      *)
(***************************************************************************)
\* concurrent ServeDNS calls
NumHandlers == 2

\* queries served one after the other in one run
MaxRequests == 2

\* successful refreshes in one run
MaxInstalls == 2

\* the clock runs from 0 to MaxTime seconds, in steps of Step seconds
MaxTime == 400

Step == TTL \div 3

Handlers == 1..NumHandlers

\* The runs explored: two ServeDNS calls that may overlap, on any of
\* NumHandlers serving goroutines, while the clock stands still; or
\* MaxRequests calls one after the other while the clock runs to MaxTime.
Runs ==
    { [handlers |-> NumHandlers, requests |-> 2, horizon |-> 0],
      [handlers |-> 1, requests |-> MaxRequests, horizon |-> MaxTime] }

\* The zero time.Time, the value of lastUpdate before it is first written.
ZeroTime == -1

\* uint32(time.Now().Sub(time.Time{}).Seconds()): Sub saturates at the
\* largest Duration (9223372036.85 s), which no uint32 holds; the result
\* of the conversion then depends on the target (truncation of the int64
\* value on amd64, saturation on arm64).
ZeroTimeSeconds32 == { <<9665, 32004>>, <<Limb - 1, Limb - 1>> }

(***************************************************************************)
(* State                                                                    *)
(***************************************************************************)
VARIABLES
    run,          \* which of Runs this behaviour is (fixed)
    Config,       \* p.Config (fixed after setup)
    aClients,     \* p.aClients
    aaaaClients,  \* p.aaaaClients
    lastUpdate,   \* p.lastUpdate, in seconds of the clock, or ZeroTime
    IsReady,      \* p.IsReady
    mu,           \* p.mu: the goroutine holding it, or NoOwner
    haveRoutine,  \* p.haveRoutine
    count,        \* UnifinamesCount
    now,          \* the clock (time.Now), in seconds
    spc,          \* ServeDNS call h: where it stands
    msg,          \* ServeDNS call h: r.Question
    qi,           \* ServeDNS call h: i of the loop of resolve
    rrs,          \* ServeDNS call h: rrs of resolve
    reply,        \* the last ServeDNS call to return: its query and result
    rpc,          \* refresh goroutine started by call h: where it stands
    nextFire,     \* refresh goroutine h: next firing time of its ticker t
    tick,         \* refresh goroutine h: a tick is waiting in t.C
    ypc,          \* the Ready call: where it stands
    snapId,       \* history: number of snapshots installed so far
    lastInstall,  \* history: time of the last successful getClients
    readyErr,     \* history: getClients failed in the current Ready call
    arg,          \* a function studied on its own: its input
    out           \* a function studied on its own: its results so far

vars == <<run, Config, aClients, aaaaClients, lastUpdate, IsReady, mu, haveRoutine,
          count, now, spc, msg, qi, rrs, reply, rpc, nextFire, tick, ypc,
          snapId, lastInstall, readyErr, arg, out>>

cacheVars == <<aClients, aaaaClients, lastUpdate>>

serveVars == <<spc, msg, qi, rrs, reply>>

routineVars == <<rpc, nextFire, tick>>

pureVars == <<arg, out>>

NoOwner == <<>>

ServeId(h) == <<"ServeDNS", h>>

RoutineId(h) == <<"update", h>>

ReadyId == <<"Ready">>

\* The instance after construction, no call made yet.
Fresh ==
    /\ aClients = <<>>
    /\ aaaaClients = <<>>
    /\ lastUpdate = ZeroTime
    /\ IsReady = FALSE
    /\ mu = NoOwner
    /\ haveRoutine = FALSE
    /\ count = 0
    /\ now = 0
    /\ spc = [h \in Handlers |-> "idle"]
    /\ msg = [h \in Handlers |-> <<>>]
    /\ qi = [h \in Handlers |-> 0]
    /\ rrs = [h \in Handlers |-> <<>>]
    /\ reply = [h |-> 0, msg |-> <<>>, rs |-> <<>>, answered |-> FALSE]
    /\ rpc = [h \in Handlers |-> "none"]
    /\ nextFire = [h \in Handlers |-> ZeroTime]
    /\ tick = [h \in Handlers |-> FALSE]
    /\ ypc = "idle"
    /\ snapId = 0
    /\ lastInstall = ZeroTime
    /\ readyErr = FALSE

Start(runs) ==
    /\ run \in runs
    /\ Config \in Configs
    /\ Fresh
    /\ arg = <<>>
    /\ out = <<>>

Init == Start(Runs)

(***************************************************************************)
(* getClients                                                               *)
(***************************************************************************)
\* A loop body that would fall back to the other display field when the
\* configured one is empty.
AddEntryWithFallback(cfg, lists, entry) ==
    LET chosen   == IF cfg.UseNameAsHostname THEN entry.Name ELSE entry.Hostname
        other    == IF cfg.UseNameAsHostname THEN entry.Hostname ELSE entry.Name
        raw      == IF chosen = <<>> THEN other ELSE chosen
        dns_name == ToLower(sanitizeName(raw))
        ip       == ParseIP(entry.IP)
        network  == ToLower(entry.Network)
    IN  IF \/ raw = <<>>
           \/ dns_name = <<>>
           \/ IsFQDN(dns_name)
           \/ ip = <<>>
           \/ network \notin DOMAIN cfg.Networks
        THEN lists
        ELSE LET hdr == [Name   |-> dns_name \o <<46>> \o cfg.Networks[network],
                         Rrtype |-> 0,
                         Class  |-> ClassINET,
                         Ttl    |-> U32(0)]
             IN  IF To4(ip) # <<>>
                 THEN [lists EXCEPT !.a =
                          Append(@, [Hdr |-> [hdr EXCEPT !.Rrtype = TypeA], IP |-> ip])]
                 ELSE [lists EXCEPT !.aaaa =
                          Append(@, [Hdr |-> [hdr EXCEPT !.Rrtype = TypeAAAA], IP |-> ip])]

\* One iteration of the loop over the upstream entries.
AddEntry(cfg, lists, entry) ==
    LET raw      == IF cfg.UseNameAsHostname THEN entry.Name ELSE entry.Hostname
        dns_name == ToLower(sanitizeName(raw))
        ip       == ParseIP(entry.IP)
        network  == ToLower(entry.Network)
    IN  IF \/ raw = <<>>
           \/ dns_name = <<>>
           \/ IsFQDN(dns_name)
           \/ ip = <<>>
           \/ network \notin DOMAIN cfg.Networks
        THEN lists
        ELSE LET hdr == [Name   |-> dns_name \o <<46>> \o cfg.Networks[network],
                         Rrtype |-> 0,
                         Class  |-> ClassINET,
                         Ttl    |-> U32(0)]
             IN  IF To4(ip) # <<>>
                 THEN [lists EXCEPT !.a =
                          Append(@, [Hdr |-> [hdr EXCEPT !.Rrtype = TypeA], IP |-> ip])]
                 ELSE [lists EXCEPT !.aaaa =
                          Append(@, [Hdr |-> [hdr EXCEPT !.Rrtype = TypeAAAA], IP |-> ip])]

RECURSIVE BuildLists(_, _, _)
BuildLists(cfg, lists, clients) ==
    IF clients = <<>> THEN lists
    ELSE BuildLists(cfg, AddEntry(cfg, lists, clients[1]), Tail(clients))

\* Outcomes of the upstream calls of one getClients: the call that failed
\* (NewUnifi, GetSites, GetClients), or "" and the client list.
Fetches ==
    { [err |-> e, clients |-> <<>>] : e \in FetchErrors }
    \cup { [err |-> "", clients |-> c] : c \in ClientLists }

\* The loop of getClients over each client list of ClientLists, under each
\* configuration of Configs.
BuiltLists ==
    [cfg \in Configs |->
        [c \in ClientLists |-> BuildLists(cfg, [a |-> <<>>, aaaa |-> <<>>], c)]]

\* A getClients that would set the lists to nil before the upstream calls.
getClientsClearsFirst(cfg, lists, fetch) ==
    IF fetch.err # ""
    THEN [err |-> TRUE, a |-> <<>>, aaaa |-> <<>>]
    ELSE LET built == BuiltLists[cfg][fetch.clients]
         IN  [err |-> FALSE, a |-> built.a, aaaa |-> built.aaaa]

\* getClients: an error returns before the lists are touched; otherwise
\* both lists are set to nil and rebuilt from the entries.
getClients(cfg, lists, fetch) ==
    IF fetch.err # ""
    THEN [err |-> TRUE, a |-> lists.a, aaaa |-> lists.aaaa]
    ELSE LET built == BuiltLists[cfg][fetch.clients]
         IN  [err |-> FALSE, a |-> built.a, aaaa |-> built.aaaa]

(***************************************************************************)
(* resolve, shouldHandle                                                    *)
(***************************************************************************)
shouldHandle(cfg, name) ==
    \E n \in DOMAIN cfg.Networks : HasSuffix(name, cfg.Networks[n])

\* The questions for which resolve takes the lock and scans a list.
Scans(cfg, question) ==
    /\ question.Qclass = ClassINET
    /\ question.Qtype \in {TypeA, TypeAAAA}
    /\ shouldHandle(cfg, ToLower(question.Name))

\* The loop of resolve from question i on: the next question that scans.
RECURSIVE NextScan(_, _, _)
NextScan(cfg, m, i) ==
    IF i > Len(m) THEN i
    ELSE IF Scans(cfg, m[i]) THEN i
    ELSE NextScan(cfg, m, i + 1)

\* A scan that would take the first record of the list without comparing
\* the names.
FirstRecord(list, name) == IF list = <<>> THEN 0 ELSE 1

\* A scan that would keep the last record whose name folds to the question
\* name, as an index keyed by name gives.
LastMatch(list, name) ==
    LET hits == {k \in 1..Len(list) : EqualFold(list[k].Hdr.Name, name)} IN
    IF hits = {} THEN 0 ELSE CHOOSE k \in hits : \A j \in hits : k >= j

\* The range loop over a list: the first record whose name folds to the
\* question name (0: none).
FirstMatch(list, name) ==
    LET hits == {k \in 1..Len(list) : EqualFold(list[k].Hdr.Name, name)} IN
    IF hits = {} THEN 0 ELSE CHOOSE k \in hits : \A j \in hits : k <= j

\* uint32(time.Now().Sub(p.lastUpdate).Seconds())
ElapsedSeconds32(t, last) ==
    IF last = ZeroTime THEN ZeroTimeSeconds32 ELSE {U32(t - last)}

\* client.Hdr.Ttl = p.Config.TTL - uint32(...)
ResponseTtl(secs) == Sub32(U32(TTL), secs)

\* A resolve that would write the reply whatever it collected.
AnswersAlways(rs) == Len(rs) >= 0

\* len(rrs) > 0: resolve writes the reply and returns true.
Answers(rs) == Len(rs) > 0

(***************************************************************************)
(* ServeDNS                                                                 *)
(***************************************************************************)
\* Requests begun and not yet counted by UnifinamesCount.Inc().
Uncounted == Cardinality({h \in Handlers : spc[h] = "store"})

\* Where resolve stands with question i next and rrs = rs: at the lock of
\* the next question that scans, or at its end, where it writes the reply
\* if len(rrs) > 0 and ServeDNS returns.
ResolveFrom(h, m, i, rs) ==
    LET j == NextScan(Config, m, i) IN
    IF j <= Len(m)
    THEN /\ spc' = [spc EXCEPT ![h] = "lock"]
         /\ msg' = [msg EXCEPT ![h] = m]
         /\ qi' = [qi EXCEPT ![h] = j]
         /\ rrs' = [rrs EXCEPT ![h] = rs]
         /\ UNCHANGED reply
    ELSE /\ spc' = [spc EXCEPT ![h] = "idle"]
         /\ msg' = [msg EXCEPT ![h] = <<>>]
         /\ qi' = [qi EXCEPT ![h] = 0]
         /\ rrs' = [rrs EXCEPT ![h] = <<>>]
         /\ reply' = [h |-> h, msg |-> m, rs |-> rs, answered |-> Answers(rs)]

\* A ServeDNS that would count only the queries that carry a question.
IncResolveSkipsEmpty(h, m) ==
    /\ count' = IF m = <<>> THEN count ELSE count + 1
    /\ ResolveFrom(h, m, 1, <<>>)

\* UnifinamesCount.Inc(); p.resolve(w, r) up to its first p.mu.Lock(), or
\* to its end if no question scans.
IncResolve(h, m) ==
    /\ count' = count + 1
    /\ ResolveFrom(h, m, 1, <<>>)

\* The framework calls ServeDNS with a query m: if !p.haveRoutine.Load().
\* With the flag set the call goes on to count and resolve the query.
\* (The query is not read before resolve: a call that found the flag
\* unset draws it in StoreGo.)
Begin(h, m) ==
    /\ spc[h] = "idle"
    /\ h <= run.handlers
    /\ count + Uncounted < run.requests
    /\ IF haveRoutine
       THEN IncResolve(h, m)
       ELSE /\ spc' = [spc EXCEPT ![h] = "store"]
            /\ UNCHANGED <<count, msg, qi, rrs, reply>>
    /\ UNCHANGED <<run, Config, cacheVars, IsReady, mu, haveRoutine, now,
                   routineVars, ypc, snapId, lastInstall, readyErr>>

\* p.haveRoutine.Store(true); go func() {...}(): the new goroutine starts
\* at update(). The call goes on to count and resolve its query m.
StoreGo(h, m) ==
    /\ spc[h] = "store"
    /\ haveRoutine' = TRUE
    /\ rpc' = [rpc EXCEPT ![h] = "lock"]
    /\ IncResolve(h, m)
    /\ UNCHANGED <<run, Config, cacheVars, IsReady, mu, now, nextFire, tick,
                   ypc, snapId, lastInstall, readyErr>>

\* The record appended to rrs: a copy of the cached record with the TTL
\* set. (q, snap, age and from are history: the question answered, the
\* snapshot the record was read from, that snapshot's age at the time and
\* the list that was scanned.)
Answer(list, k, secs, i) ==
    [rr   |-> [list[k] EXCEPT !.Hdr.Ttl = ResponseTtl(secs)],
     q    |-> i,
     snap |-> snapId,
     age  |-> now - lastInstall,
     from |-> list]

\* A scan that would set the TTL in the element of the list itself.
RangeWritesElement(list, k, secs) ==
    [list EXCEPT ![k].Hdr.Ttl = ResponseTtl(secs)]

\* The list after the scan matched its element k: client, the variable of
\* the range loop, is a copy of the element, so client.Hdr.Ttl = ... leaves
\* the list as it is.
RangeLeaves(list, k, secs) == list

\* One critical section of resolve: p.mu.Lock(), the scan for question
\* qi, p.mu.Unlock(); then the loop up to the next lock or the end.
Scan(h) ==
    /\ spc[h] = "lock"
    /\ mu = NoOwner
    /\ LET question == msg[h][qi[h]]
           isA      == question.Qtype = TypeA
           list     == IF isA THEN aClients ELSE aaaaClients
           k        == FirstMatch(list, question.Name)
       IN  IF k = 0
           THEN /\ ResolveFrom(h, msg[h], qi[h] + 1, rrs[h])
                /\ UNCHANGED <<aClients, aaaaClients>>
           ELSE \E secs \in ElapsedSeconds32(now, lastUpdate) :
                    /\ ResolveFrom(h, msg[h], qi[h] + 1,
                                   Append(rrs[h], Answer(list, k, secs, qi[h])))
                    /\ aClients' = IF isA THEN RangeLeaves(list, k, secs)
                                   ELSE aClients
                    /\ aaaaClients' = IF isA THEN aaaaClients
                                      ELSE RangeLeaves(list, k, secs)
    /\ UNCHANGED <<run, Config, lastUpdate, IsReady, mu, haveRoutine, count, now,
                   routineVars, ypc, snapId, lastInstall, readyErr>>

(***************************************************************************)
(* The refresh goroutine: update() and the ticker loop                      *)
(***************************************************************************)
\* A goroutine that would end when update() returns, with no ticker loop.
UpdateReturnsAndExits(h) ==
    /\ rpc' = [rpc EXCEPT ![h] = "exit"]
    /\ UNCHANGED <<nextFire, tick>>

\* update() has returned: the first time the goroutine creates its ticker,
\* then it waits for a tick.
UpdateReturns(h) ==
    /\ rpc' = [rpc EXCEPT ![h] = "wait"]
    /\ nextFire' = [nextFire EXCEPT ![h] =
                       IF @ = ZeroTime THEN now + TTL ELSE @]
    /\ UNCHANGED tick

\* An update that would go on to getClients without waiting for the mutex.
UpdateLockNoWait(h) ==
    /\ rpc[h] = "lock"
    /\ mu' = RoutineId(h)
    /\ rpc' = [rpc EXCEPT ![h] = "fetch"]
    /\ UNCHANGED <<run, Config, cacheVars, IsReady, haveRoutine, count, now,
                   serveVars, nextFire, tick, ypc, snapId, lastInstall, readyErr>>

\* p.mu.Lock() in update
UpdateLock(h) ==
    /\ rpc[h] = "lock"
    /\ mu = NoOwner
    /\ mu' = RoutineId(h)
    /\ rpc' = [rpc EXCEPT ![h] = "fetch"]
    /\ UNCHANGED <<run, Config, cacheVars, IsReady, haveRoutine, count, now,
                   serveVars, nextFire, tick, ypc, snapId, lastInstall, readyErr>>

\* An update that would return on an error without p.mu.Unlock().
UpdateFetchKeepsLockOnError(h, fetch) ==
    /\ rpc[h] = "fetch"
    /\ fetch.err = "" => snapId < MaxInstalls
    /\ LET res == getClients(Config, [a |-> aClients, aaaa |-> aaaaClients], fetch) IN
       /\ aClients' = res.a
       /\ aaaaClients' = res.aaaa
       /\ mu' = IF res.err THEN mu ELSE NoOwner
       /\ IF res.err
          THEN /\ UpdateReturns(h)
               /\ UNCHANGED <<snapId, lastInstall>>
          ELSE /\ rpc' = [rpc EXCEPT ![h] = "stamp"]
               /\ snapId' = snapId + 1
               /\ lastInstall' = now
               /\ UNCHANGED <<nextFire, tick>>
    /\ UNCHANGED <<run, Config, lastUpdate, IsReady, haveRoutine, count, now,
                   serveVars, ypc, readyErr>>

\* logs it and returns.
UpdateFetch(h, fetch) ==
    /\ rpc[h] = "fetch"
    /\ fetch.err = "" => snapId < MaxInstalls
    /\ LET res == getClients(Config, [a |-> aClients, aaaa |-> aaaaClients], fetch) IN
       /\ aClients' = res.a
       /\ aaaaClients' = res.aaaa
       /\ IF res.err
          THEN /\ UpdateReturns(h)
               /\ UNCHANGED <<snapId, lastInstall>>
          ELSE /\ rpc' = [rpc EXCEPT ![h] = "stamp"]
               /\ snapId' = snapId + 1
               /\ lastInstall' = now
               /\ UNCHANGED <<nextFire, tick>>
    /\ mu' = NoOwner
    /\ UNCHANGED <<run, Config, lastUpdate, IsReady, haveRoutine, count, now,
                   serveVars, ypc, readyErr>>

\* log.Printf("got %d hosts", len(p.aClients)+len(p.aaaaClients));
\* p.lastUpdate = time.Now(): after the unlock.
UpdateStamp(h) ==
    /\ rpc[h] = "stamp"
    /\ lastUpdate' = now
    /\ UpdateReturns(h)
    /\ UNCHANGED <<run, Config, aClients, aaaaClients, IsReady, mu, haveRoutine,
                   count, now, serveVars, ypc, snapId, lastInstall, readyErr>>

\* for range t.C
UpdateTick(h) ==
    /\ rpc[h] = "wait"
    /\ tick[h]
    /\ tick' = [tick EXCEPT ![h] = FALSE]
    /\ rpc' = [rpc EXCEPT ![h] = "lock"]
    /\ UNCHANGED <<run, Config, cacheVars, IsReady, mu, haveRoutine, count, now,
                   serveVars, nextFire, ypc, snapId, lastInstall, readyErr>>

(***************************************************************************)
(* Ready                                                                    *)
(***************************************************************************)
\* The ready probe calls Ready: if p.IsReady == false { ... };
\* otherwise it returns at once.
ReadyCall ==
    /\ ypc = "idle"
    /\ ~IsReady
    /\ ypc' = "lock"
    /\ readyErr' = FALSE
    /\ UNCHANGED <<run, Config, cacheVars, IsReady, mu, haveRoutine, count, now,
                   serveVars, routineVars, snapId, lastInstall>>

\* p.mu.Lock() in Ready
ReadyLock ==
    /\ ypc = "lock"
    /\ mu = NoOwner
    /\ mu' = ReadyId
    /\ ypc' = "fetch"
    /\ UNCHANGED <<run, Config, cacheVars, IsReady, haveRoutine, count, now,
                   serveVars, routineVars, snapId, lastInstall, readyErr>>

\* p.getClients under the lock (an error is logged and sets IsReady) and
\* p.mu.Unlock()
ReadyFetch(fetch) ==
    /\ ypc = "fetch"
    /\ fetch.err = "" => snapId < MaxInstalls
    /\ LET res == getClients(Config, [a |-> aClients, aaaa |-> aaaaClients], fetch) IN
       /\ aClients' = res.a
       /\ aaaaClients' = res.aaaa
       /\ readyErr' = res.err
       /\ IsReady' = (IsReady \/ res.err)
       /\ snapId' = IF res.err THEN snapId ELSE snapId + 1
       /\ lastInstall' = IF res.err THEN lastInstall ELSE now
    /\ mu' = NoOwner
    /\ ypc' = "stamp"
    /\ UNCHANGED <<run, Config, lastUpdate, haveRoutine, count, now, serveVars,
                   routineVars>>

\* A Ready that would report ready only after a successful attempt.
ReadyStampOnSuccess ==
    /\ ypc = "stamp"
    /\ lastUpdate' = now
    /\ IsReady' = ~readyErr
    /\ ypc' = "idle"
    /\ UNCHANGED <<run, Config, aClients, aaaaClients, mu, haveRoutine, count, now,
                   serveVars, routineVars, snapId, lastInstall, readyErr>>

\* log.Printf("got %d hosts", ...); p.lastUpdate = time.Now();
\* p.IsReady = true; return: after the unlock, on both paths.
ReadyStamp ==
    /\ ypc = "stamp"
    /\ lastUpdate' = now
    /\ IsReady' = TRUE
    /\ ypc' = "idle"
    /\ UNCHANGED <<run, Config, aClients, aaaaClients, mu, haveRoutine, count, now,
                   serveVars, routineVars, snapId, lastInstall, readyErr>>

(***************************************************************************)
(* Time                                                                     *)
(***************************************************************************)
\* The first firing time of a ticker of period TTL after time t, given a
\* firing time f <= t.
FireAfter(f, t) == f + TTL * (((t - f) \div TTL) + 1)

\* Step seconds pass. A ticker whose firing time is reached puts a tick in
\* its channel (of capacity 1: a tick is dropped if one is waiting).
Advance ==
    /\ now + Step <= run.horizon
    /\ now' = now + Step
    /\ tick' = [h \in Handlers |->
                   tick[h] \/ (nextFire[h] # ZeroTime /\ nextFire[h] <= now')]
    /\ nextFire' = [h \in Handlers |->
                       IF nextFire[h] # ZeroTime /\ nextFire[h] <= now'
                       THEN FireAfter(nextFire[h], now') ELSE nextFire[h]]
    /\ UNCHANGED <<run, Config, cacheVars, IsReady, mu, haveRoutine, count,
                   serveVars, rpc, ypc, snapId, lastInstall, readyErr>>

\* The reply of a returned ServeDNS call is taken by the framework
\* (w.WriteMsg and the return value) before anything else is observed.
Deliver ==
    /\ reply.h # 0
    /\ reply' = [h |-> 0, msg |-> <<>>, rs |-> <<>>, answered |-> FALSE]
    /\ UNCHANGED <<run, Config, cacheVars, IsReady, mu, haveRoutine, count, now,
                   spc, msg, qi, rrs, routineVars, ypc, snapId, lastInstall,
                   readyErr>>

\* No reply is waiting to be taken.
Taken == reply.h = 0

Next ==
    \/ Deliver /\ UNCHANGED pureVars
    \/ Taken /\ \E h \in Handlers, m \in Msgs : Begin(h, m) /\ UNCHANGED pureVars
    \/ Taken /\ \E h \in Handlers, m \in Msgs : StoreGo(h, m) /\ UNCHANGED pureVars
    \/ Taken /\ \E h \in Handlers : Scan(h) /\ UNCHANGED pureVars
    \/ Taken /\ \E h \in Handlers : UpdateLock(h) /\ UNCHANGED pureVars
    \/ Taken /\ \E h \in Handlers, fetch \in Fetches : UpdateFetch(h, fetch) /\ UNCHANGED pureVars
    \/ Taken /\ \E h \in Handlers : UpdateStamp(h) /\ UNCHANGED pureVars
    \/ Taken /\ \E h \in Handlers : UpdateTick(h) /\ UNCHANGED pureVars
    \/ Taken /\ ReadyCall /\ UNCHANGED pureVars
    \/ Taken /\ ReadyLock /\ UNCHANGED pureVars
    \/ Taken /\ \E fetch \in Fetches : ReadyFetch(fetch) /\ UNCHANGED pureVars
    \/ Taken /\ ReadyStamp /\ UNCHANGED pureVars
    \/ Taken /\ Advance /\ UNCHANGED pureVars

Spec == Init /\ [][Next]_vars

(***************************************************************************)
(* The loop of getClients on its own, over any short client list and with  *)
(* either display field                                                     *)
(***************************************************************************)
\* entries in one client list
MaxClients == 2

Entries == {eTV, eTV2, eTV6, ePrinter, eGuest, eBadIP}

ClientSeqs == UNION {[1..n -> Entries] : n \in 0..MaxClients}

LoopConfigs ==
    { [Networks |-> [n \in {sLan} |-> sHomeArpaDot], UseNameAsHostname |-> b] :
        b \in BOOLEAN }

\* getClients after its upstream calls succeeded and it set both lists to
\* nil: arg is clients, out the number of entries the loop has been over.
GetClientsInit ==
    /\ run \in {r \in Runs : r.horizon = 0}
    /\ Config \in LoopConfigs
    /\ Fresh
    /\ arg \in ClientSeqs
    /\ out = 0

\* for _, entry := range clients { ... }: one iteration.
LoopStep ==
    /\ out < Len(arg)
    /\ LET lists == AddEntry(Config, [a |-> aClients, aaaa |-> aaaaClients],
                             arg[out + 1])
       IN  /\ aClients' = lists.a
           /\ aaaaClients' = lists.aaaa
    /\ out' = out + 1
    /\ UNCHANGED <<run, Config, lastUpdate, IsReady, mu, haveRoutine, count, now,
                   serveVars, routineVars, ypc, snapId, lastInstall, readyErr, arg>>

GetClientsSpec == GetClientsInit /\ [][LoopStep]_vars

(***************************************************************************)
(* sanitizeName on its own, over every short text of a small alphabet:     *)
(* a z Z 1 0 8 - space and the Latin-1 capital E with acute                 *)
(***************************************************************************)
\* runes in one text
MaxStrLen == 3

Alphabet == {97, 122, 90, 49, 48, 56, 45, 32, 201}

Texts == UNION {[1..n -> Alphabet] : n \in 0..MaxStrLen}

\* arg is the text; out the results of sanitizeName applied to it and then
\* to its own result.
SanitizeInit ==
    /\ run \in {r \in Runs : r.horizon = 0}
    /\ Config \in {c \in LoopConfigs : ~c.UseNameAsHostname}
    /\ Fresh
    /\ arg \in Texts
    /\ out = <<>>

SanitizeCall ==
    /\ Len(out) < 2
    /\ out' = Append(out, sanitizeName(IF out = <<>> THEN arg ELSE out[Len(out)]))
    /\ UNCHANGED <<run, Config, cacheVars, IsReady, mu, haveRoutine, count, now,
                   serveVars, routineVars, ypc, snapId, lastInstall, readyErr, arg>>

SanitizeSpec == SanitizeInit /\ [][SanitizeCall]_vars

(***************************************************************************)
(* The same system without an end of time, for the progress of the         *)
(* refresh loop: past the horizon the clock reading stays where it is,     *)
(* and the tickers keep firing.                                             *)
(***************************************************************************)
AdvanceBeyond ==
    /\ now + Step > run.horizon
    /\ tick' = [h \in Handlers |-> tick[h] \/ nextFire[h] # ZeroTime]
    /\ UNCHANGED <<run, Config, cacheVars, IsReady, mu, haveRoutine, count, now,
                   serveVars, rpc, nextFire, ypc, snapId, lastInstall, readyErr>>

LiveNext ==
    \/ Next
    \/ Taken /\ AdvanceBeyond /\ UNCHANGED pureVars

\* Scheduling: a goroutine that can run does run (WF); a goroutine waiting
\* in p.mu.Lock() gets the mutex if it is free again and again (SF:
\* sync.Mutex hands the lock to a starving waiter); time passes.
Fairness ==
    /\ WF_vars(Deliver /\ UNCHANGED pureVars)
    /\ WF_vars(Taken /\ Advance /\ UNCHANGED pureVars)
    /\ WF_vars(Taken /\ AdvanceBeyond /\ UNCHANGED pureVars)
    /\ WF_vars(Taken /\ \E fetch \in Fetches : ReadyFetch(fetch) /\ UNCHANGED pureVars)
    /\ \A h \in Handlers :
        /\ SF_vars(Taken /\ UpdateLock(h) /\ UNCHANGED pureVars)
        /\ WF_vars(Taken /\ \E fetch \in Fetches : UpdateFetch(h, fetch) /\ UNCHANGED pureVars)
        /\ WF_vars(Taken /\ UpdateStamp(h) /\ UNCHANGED pureVars)
        /\ WF_vars(Taken /\ UpdateTick(h) /\ UNCHANGED pureVars)

\* One ServeDNS call starts the goroutine; Ready and the call's scans
\* compete with it for the mutex.
LiveRun == [handlers |-> 1, requests |-> 1, horizon |-> Step]

LiveInit == Start({LiveRun})

LiveSpec == LiveInit /\ [][LiveNext]_vars /\ Fairness

\* The same, with the queries' p.mu.Lock() scheduled as the goroutine's:
\* a resolve waiting for the mutex gets it if it is free again and again.
ScanFairness ==
    \A h \in 1..LiveRun.handlers : SF_vars(Taken /\ Scan(h) /\ UNCHANGED pureVars)

LockSpec == LiveInit /\ [][LiveNext]_vars /\ Fairness /\ ScanFairness


(***************************************************************************)
(* Properties                                                               *)
(***************************************************************************)
\* The refresh goroutines launched so far.
Routines == {h \in Handlers : rpc[h] # "none"}

\* The answers of the reply that has just been written.
ReplyAnswers == {reply.rs[i] : i \in 1..Len(reply.rs)}

\* C1: for one plugin instance at most one refresh goroutine is ever
\* created, however the first ServeDNS calls interleave.
C1_AtMostOneRefreshLoop == Cardinality(Routines) <= 1

\* C2: all answer records of one reply were read from the same installed
\* snapshot.
C2_ReplyFromOneSnapshot ==
    \A a, b \in ReplyAnswers : a.snap = b.snap

\* C3: every answered question has exactly one answer, and the TTL of
\* every answer is at most the configured TTL.
C3_OneAnswerTtlAtMostConfigured ==
    \A a \in ReplyAnswers :
        /\ Cardinality({b \in ReplyAnswers : b.q = a.q}) = 1
        /\ Leq32(a.rr.Hdr.Ttl, U32(TTL))

\* A step in which a refresh attempt ends in an error: getClients has
\* returned an error to update (timer path) or to Ready.
FailedAttempt ==
    \/ \E h \in Handlers : rpc[h] = "fetch" /\ rpc'[h] = "wait"
    \/ ypc = "fetch" /\ ypc' = "stamp" /\ readyErr'

\* C4: a refresh attempt that fails leaves both record lists of the live
\* snapshot exactly as they were, on the timer path and on the Ready path.
C4_FailedRefreshKeepsLists ==
    [][FailedAttempt => (aClients' = aClients /\ aaaaClients' = aaaaClients)]_vars

\* C4 witness: Ready's attempt has failed while a snapshot with records
\* was live, and a refresh goroutine exists.
C4_Witness ==
    /\ ypc = "stamp" /\ readyErr
    /\ aClients # <<>> /\ aaaaClients # <<>>
    /\ Routines # {}

\* C5: lastUpdate is changed only by a refresh attempt that succeeded.
C5_LastUpdateOnlyOnSuccess ==
    [][lastUpdate' # lastUpdate =>
          \/ \E h \in Handlers : rpc[h] = "stamp" /\ rpc'[h] # "stamp"
          \/ ypc = "stamp" /\ ypc' # "stamp" /\ ~readyErr]_vars

\* C6: whoever is about to read or write the record lists or lastUpdate
\* holds the mutex (getClients at "fetch"; the len() reads and the write of
\* lastUpdate at "stamp").
C6_AccessUnderLock ==
    /\ \A h \in Handlers : rpc[h] \in {"fetch", "stamp"} => mu = RoutineId(h)
    /\ ypc \in {"fetch", "stamp"} => mu = ReadyId

\* A name that ends with none of the served suffixes.
OutsideSuffixes(name) ==
    \A n \in DOMAIN Config.Networks :
        ~HasSuffix(ToLower(name), ToLower(Config.Networks[n]))

\* C7: a query all of whose question names end with none of the served
\* suffixes is not answered: resolve returns false and writes no record.
C7_OutsideSuffixesFallsThrough ==
    (/\ reply.h # 0
     /\ \A i \in 1..Len(reply.msg) : OutsideSuffixes(reply.msg[i].Name))
    => (~reply.answered /\ reply.rs = <<>>)

\* C7 witness: such a query, with at least one question, has been handled
\* while the snapshot held records.
C7_Witness ==
    /\ reply.h # 0
    /\ Len(reply.msg) > 0
    /\ \A i \in 1..Len(reply.msg) : OutsideSuffixes(reply.msg[i].Name)
    /\ aClients # <<>>
    /\ ~reply.answered

\* The configuration of the first concrete scenario: network "lan" mapped
\* to domain "home.arpa", names taken from the hostname.
ScenarioConfig == [Networks |-> [n \in {sLan} |-> sHomeArpa], UseNameAsHostname |-> FALSE]

\* C8: in that configuration, after one successful refresh over the entry
\* {hostname "Living Room TV", ip 192.168.1.20, network "lan"}, a reply to a
\* query whose last question is (living-room-tv.home.arpa., A, IN) holds
\* exactly one answer to it, an A record with address 192.168.1.20.
C8_ScenarioAnswered ==
    (/\ Config = ScenarioConfig
     /\ snapId = 1
     /\ [a |-> aClients, aaaa |-> aaaaClients]
            = BuildLists(Config, [a |-> <<>>, aaaa |-> <<>>], <<eTV>>)
     /\ reply.h # 0
     /\ Len(reply.msg) > 0
     /\ reply.msg[Len(reply.msg)] = Q(qLivingRoomTV, TypeA, ClassINET))
    => /\ Cardinality({a \in ReplyAnswers : a.q = Len(reply.msg)}) = 1
       /\ \A a \in ReplyAnswers :
              a.q = Len(reply.msg) =>
                  /\ a.rr.Hdr.Rrtype = TypeA
                  /\ To4(a.rr.IP) = <<192, 168, 1, 20>>

\* C9: an answer read d seconds after the most recent successful refresh,
\* d at most the configured TTL, carries the TTL configured TTL - d.
C9_TtlIsConfiguredMinusAge ==
    \A a \in ReplyAnswers :
        a.age \in 0..TTL => a.rr.Hdr.Ttl = U32(TTL - a.age)

\* C10: a refresh goroutine, once started, never stops, and after every
\* attempt, successful or not, it eventually makes another one.
C10_RefreshLoopGoesOn ==
    /\ [][\A h \in Handlers : rpc[h] # "none" => rpc'[h] # "none"]_vars
    /\ \A h \in Handlers : (rpc[h] # "none") ~> (rpc[h] = "fetch")

\* C10 witness: a goroutine is at a later attempt (it has taken a tick)
\* after a failed one left the snapshot empty.
C10_Witness ==
    \E h \in Handlers :
        /\ rpc[h] = "fetch"
        /\ nextFire[h] # ZeroTime
        /\ snapId = 0

\* C11: Ready on an instance that is not ready makes one getClients
\* attempt with the mutex held and returns with IsReady true, whatever the
\* attempt's outcome; IsReady never goes back to false, and Ready makes no
\* attempt once it is true.
C11_ReadyMakesReady ==
    /\ [](ypc = "fetch" => mu = ReadyId)
    /\ [][(ypc = "stamp") => (ypc' \in {"stamp", "idle"})]_vars
    /\ [][(ypc # "idle" /\ ypc' = "idle") => IsReady']_vars
    /\ [][IsReady => IsReady']_vars
    /\ [][(ypc = "idle" /\ ypc' # "idle") => ~IsReady]_vars

\* C11 witness: Ready has returned after an attempt that failed.
C11_Witness ==
    /\ ypc = "idle"
    /\ IsReady
    /\ readyErr
    /\ snapId = 0

\* The getClients executions in progress.
Building ==
    {RoutineId(h) : h \in {g \in Handlers : rpc[g] = "fetch"}}
    \cup (IF ypc = "fetch" THEN {ReadyId} ELSE {})

\* C12: at most one getClients is in progress at any time, over every
\* refresh goroutine and Ready.
C12_RefreshesNeverOverlap == Cardinality(Building) <= 1

\* C12 witness: one goroutine is in getClients while a second goroutine
\* and Ready wait for the mutex.
C12_Witness ==
    /\ Cardinality(Building) = 1
    /\ \E h \in Handlers : rpc[h] = "lock"
    /\ ypc = "lock"

\* ServeDNS call h returns in this step, and its query had no question.
EmptyQueryReturns(h) ==
    /\ reply.h = 0
    /\ reply'.h = h
    /\ reply'.msg = <<>>

\* C13 as stated: a query with zero questions is not answered and changes
\* nothing but the request counter, which goes up by one, also when it is
\* the first query of the instance.
C13_EmptyQueryOnlyCounts ==
    [][\A h \in Handlers : EmptyQueryReturns(h) =>
          /\ ~reply'.answered
          /\ count' = count + 1
          /\ UNCHANGED <<aClients, aaaaClients, lastUpdate, haveRoutine, rpc>>]_vars

\* C13 amended: a query with zero questions is not answered, adds one to
\* the request counter and leaves the lists and lastUpdate as they are; it
\* leaves the started flag and the refresh goroutines as they are when the
\* call found the flag set.
C13_EmptyQueryOnlyCountsOnceStarted ==
    [][\A h \in Handlers : EmptyQueryReturns(h) =>
          /\ ~reply'.answered
          /\ count' = count + 1
          /\ UNCHANGED <<aClients, aaaaClients, lastUpdate>>
          /\ (spc[h] = "idle" /\ haveRoutine) => UNCHANGED <<haveRoutine, rpc>>]_vars

\* C13 witness: a call that found the flag set has returned from a query
\* with no question, with a snapshot installed.
C13_Witness ==
    \E h \in Handlers :
        /\ reply.h = h
        /\ reply.msg = <<>>
        /\ ~reply.answered
        /\ rpc[h] = "none"
        /\ haveRoutine
        /\ aClients # <<>>

\* The display field the toggle selects.
DisplayField(cfg, e) == IF cfg.UseNameAsHostname THEN e.Name ELSE e.Hostname

\* The filters C14 names: display field, IP, network.
PassesFilters(cfg, e) ==
    /\ DisplayField(cfg, e) # <<>>
    /\ ParseIP(e.IP) # <<>>
    /\ ToLower(e.Network) \in DOMAIN cfg.Networks

\* Record r is the one entry e gives.
DerivesFrom(cfg, r, e) ==
    /\ r.IP = ParseIP(e.IP)
    /\ r.Hdr.Name = ToLower(sanitizeName(DisplayField(cfg, e))) \o <<46>>
                       \o cfg.Networks[ToLower(e.Network)]

\* C14: every record of the two lists derives from an entry that passed
\* the network, IP and display-field filters, and the entries that fail
\* one of them add no record.
C14_RecordsPassedEveryFilter ==
    LET passed  == {i \in 1..out : PassesFilters(Config, arg[i])}
        records == {aClients[k] : k \in 1..Len(aClients)}
                   \cup {aaaaClients[k] : k \in 1..Len(aaaaClients)}
    IN  /\ \A r \in records : \E i \in passed : DerivesFrom(Config, r, arg[i])
        /\ Len(aClients) + Len(aaaaClients) <= Cardinality(passed)

\* C14 witness: the loop has been over an entry with an empty hostname
\* and a name, and over an entry that passes: one record.
C14_Witness ==
    /\ arg = <<ePrinter, eTV>>
    /\ out = 2
    /\ ~Config.UseNameAsHostname
    /\ Len(aClients) = 1
    /\ aaaaClients = <<>>

\* C15: sanitizeName applied to its own result gives that result.
C15_SanitizeIdempotent == Len(out) = 2 => out[2] = out[1]

\* C15 witness: "Z01" gave "z-1", and sanitizeName was applied again.
C15_Witness ==
    /\ arg = <<90, 48, 49>>
    /\ Len(out) = 2
    /\ out[1] = <<122, 45, 49>>

\* The runes sanitizeName keeps: the allow-list without '-'.
KeptRunes == {allowedRunes[i] : i \in 1..Len(allowedRunes)} \ {45}

\* The kept runes of s in order, with one '-' wherever runes that are not
\* kept lie between two of them. gap: 0 nothing kept so far, 1 the last
\* rune was kept, 2 runes were dropped since the last kept one.
RECURSIVE Squeeze(_, _)
Squeeze(s, gap) ==
    IF s = <<>> THEN <<>>
    ELSE IF s[1] \in KeptRunes
         THEN (IF gap = 2 THEN <<45, s[1]>> ELSE <<s[1]>>) \o Squeeze(Tail(s), 1)
         ELSE Squeeze(Tail(s), IF gap = 0 THEN 0 ELSE 2)

\* The shape C16 gives the result: runes of a-z, 0-9 and '-', no "--", no
\* '-' at either end.
WellFormed(t) ==
    /\ \A i \in 1..Len(t) : t[i] \in 97..122 \/ t[i] \in 48..57 \/ t[i] = 45
    /\ \A i \in 1..(Len(t) - 1) : ~(t[i] = 45 /\ t[i + 1] = 45)
    /\ t # <<>> => (t[1] # 45 /\ t[Len(t)] # 45)

\* C16 as stated: the result is well formed, and every rune of the input
\* that is outside the allow-list separates.
C16_SanitizeSeparatesInput ==
    Len(out) >= 1 =>
        /\ WellFormed(out[1])
        /\ out[1] = Squeeze(arg, 0)
        /\ arg = <<>> => out[1] = <<>>

\* C16 amended: the result is well formed, and every rune of the input
\* whose lower-case form is outside the allow-list separates; the other
\* runes are kept in lower case.
C16_SanitizeSeparatesLowered ==
    Len(out) >= 1 =>
        /\ WellFormed(out[1])
        /\ out[1] = Squeeze(ToLower(arg), 0)
        /\ arg = <<>> => out[1] = <<>>

\* C16 witness: "-08" has only separators and gives the empty text.
C16_Witness ==
    /\ arg = <<45, 48, 56>>
    /\ Len(out) >= 1
    /\ out[1] = <<>>

\* Some record the upstream's client lists give under Config has this name.
KnownName(name) ==
    \E c \in ClientLists :
        LET built == BuiltLists[Config][c] IN
        \/ \E k \in 1..Len(built.a) : EqualFold(built.a[k].Hdr.Name, name)
        \/ \E k \in 1..Len(built.aaaa) : EqualFold(built.aaaa[k].Hdr.Name, name)

\* C17: what ServeDNS returns is decided by the records resolve found: an
\* answer names a record that was in the list scanned for its question; a
\* query while no snapshot was ever installed, or for names no snapshot
\* holds, is not answered and goes to the next handler, whatever refresh
\* attempts failed.
C17_QueriesUntouchedByFailures ==
    reply.h # 0 =>
        /\ reply.answered = (reply.rs # <<>>)
        /\ \A a \in ReplyAnswers :
              /\ a.snap >= 1
              /\ \E k \in 1..Len(a.from) :
                    EqualFold(a.from[k].Hdr.Name, reply.msg[a.q].Name)
        /\ snapId = 0 => ~reply.answered
        /\ (\A i \in 1..Len(reply.msg) : ~KnownName(reply.msg[i].Name))
              => ~reply.answered

\* C17 witness: after a failed refresh, with no snapshot yet, a query for
\* a name inside the served suffix was passed on.
C17_Witness ==
    /\ reply.h # 0
    /\ \E i \in 1..Len(reply.msg) : Scans(Config, reply.msg[i])
    /\ ~reply.answered
    /\ snapId = 0
    /\ \E h \in Handlers : rpc[h] = "wait"

\* C18: the steps of ServeDNS and resolve leave both lists and lastUpdate
\* as they are, and the records of the lists keep the TTL 0 getClients
\* gave them.
C18_ResolveLeavesCache ==
    /\ [](/\ \A k \in 1..Len(aClients) : aClients[k].Hdr.Ttl = U32(0)
          /\ \A k \in 1..Len(aaaaClients) : aaaaClients[k].Hdr.Ttl = U32(0))
    /\ [][serveVars' # serveVars => UNCHANGED cacheVars]_vars

\* C18 witness: a reply carries a record with its TTL set, and the lists
\* are installed.
C18_Witness ==
    /\ \E a \in ReplyAnswers : a.rr.Hdr.Ttl # U32(0)
    /\ aClients # <<>>
    /\ aaaaClients # <<>>

\* C19: an answer is for a class-Internet A or AAAA question inside a
\* served suffix, was scanned in the list of the question's type, is the
\* earliest record of that list whose name folds to the question name,
\* and is the only answer for its question.
C19_FirstMatchPerQuestion ==
    \A a \in ReplyAnswers :
        LET question == reply.msg[a.q] IN
        /\ question.Qclass = ClassINET
        /\ question.Qtype \in {TypeA, TypeAAAA}
        /\ shouldHandle(Config, ToLower(question.Name))
        /\ \A k \in 1..Len(a.from) : a.from[k].Hdr.Rrtype = question.Qtype
        /\ \E k \in 1..Len(a.from) :
              /\ a.from[k] = [a.rr EXCEPT !.Hdr.Ttl = U32(0)]
              /\ EqualFold(a.from[k].Hdr.Name, question.Name)
              /\ \A j \in 1..(k - 1) : ~EqualFold(a.from[j].Hdr.Name, question.Name)
        /\ Cardinality({b \in ReplyAnswers : b.q = a.q}) = 1

\* C19 witness: an answer was taken from a list whose first two records
\* share the name.
C19_Witness ==
    \E a \in ReplyAnswers :
        /\ Len(a.from) >= 2
        /\ EqualFold(a.from[1].Hdr.Name, a.from[2].Hdr.Name)
        /\ a.from[1].IP # a.from[2].IP
        /\ a.rr.IP = a.from[1].IP

\* C20: the mutex is held only by a goroutine inside getClients, which can
\* go on and releases it when the upstream calls return; every query
\* waiting in p.mu.Lock() gets the mutex, at each of its questions, and
\* resolve comes to its end.
C20_LockAlwaysReleased ==
    /\ [](mu # NoOwner =>
            \/ \E h \in Handlers :
                  /\ mu = RoutineId(h)
                  /\ rpc[h] = "fetch"
                  /\ ENABLED (\E fetch \in Fetches : UpdateFetch(h, fetch))
            \/ /\ mu = ReadyId
               /\ ypc = "fetch"
               /\ ENABLED (\E fetch \in Fetches : ReadyFetch(fetch)))
    /\ \A h \in Handlers : (spc[h] = "lock") ~> (spc[h] # "lock")

\* C20 witness: a query waits for the mutex while a refresh holds it.
C20_Witness ==
    /\ \E h \in Handlers : spc[h] = "lock"
    /\ \E h \in Handlers : mu = RoutineId(h)
    /\ ypc = "lock"

====
